---- MODULE Spec2Model ----
(***************************************************************************)
(* Model of src/index.ts: the SessionState trace buffer (updateDelta,      *)
(* getMinSimilarity, detectThoughtLoop) and the ThoughtLoopDetector event  *)
(* handlers, including the asynchronous tail of handleMessagePartUpdate    *)
(* that runs after a loop was declared.                                    *)
(*                                                                         *)
(* A JavaScript string is a sequence of one-character strings.  An         *)
(* optional value (delta?: string, minSimilarity?: number) is a record     *)
(* [defined, val].  SessionState objects live in a heap keyed by object    *)
(* identity, because the asynchronous tail keeps a reference to the object *)
(* it started with, whatever the registry maps the session id to later.    *)
(***************************************************************************)
EXTENDS Integers, Sequences, FiniteSets, TLC

VARIABLES
    sessions,   \* ThoughtLoopDetector.sessions: session id -> object identity
    heap,       \* object identity -> SessionState fields
    conts,      \* suspended tails of handleMessagePartUpdate (lines 162-181)
    calls,      \* client.session.abort / .prompt calls issued by the last step, in order
    log,        \* last client.app.log line written by the last step
    uHistory,   \* reasoningHistory of a stand-alone SessionState
    uRet        \* the last method call on it and what it returned

vars == <<sessions, heap, conts, calls, log, uHistory, uRet>>

(***************************************************************************)
(* Sizes.  The three program constants of src/index.ts lines 5-7 are 300,  *)
(* 20 and 30; the model keeps their names and their roles and scales the   *)
(* values down so that the state space is finite and small.                *)
(***************************************************************************)
MAX_REASONING_TRACE_LEN == 2

MAX_REASONING_HISTORY_SEGMENTS == 3

MIN_LEVENSHTEIN_DISTANCE == 2

\* Most loop-detection tails that may be suspended at the same time.
MaxConts == 1

\* Longest raw delta handed to the stand-alone SessionState.
MaxDeltaLen == 3

\* Longest segment the stand-alone SessionState is driven to.
MaxStoredLen == 3

\* let minDistance = 1000000000 (line 51)
INITIAL_MIN_DISTANCE == 1000000000

Sessions == {"s1", "s2"}

\* messageID of the events delivered
MsgIds == {"m1", "m2"}

\* promptRes.data.info.id of a successful injection
PromptIds == {"m1"}

Undefined == "undefined"

\* Object identities: the session id an object was created for, and a number
\* telling it from the earlier objects of that id that are still referenced
ObjIds == Sessions \X (0..MaxConts)

(***************************************************************************)
(* Strings                                                                 *)
(***************************************************************************)
NoValue == [defined |-> FALSE, val |-> <<>>]

Some(v) == [defined |-> TRUE, val |-> v]

NoNumber == [defined |-> FALSE, val |-> 0]

Num(n) == [defined |-> TRUE, val |-> n]

IsSpace(c) == c \in {" ", "\t"}

LowerChar(c) == CASE c = "A" -> "a" [] c = "B" -> "b" [] c = "C" -> "c" [] OTHER -> c

toLowerCase(s) == [i \in 1..Len(s) |-> LowerChar(s[i])]

\* replace(/\s+/g, ' '): every maximal run of white space becomes one blank
RECURSIVE CollapseWhitespace(_)
CollapseWhitespace(s) ==
    IF Len(s) = 0 THEN <<>>
    ELSE IF IsSpace(s[1])
         THEN IF Len(s) > 1 /\ IsSpace(s[2])
              THEN CollapseWhitespace(Tail(s))
              ELSE <<" ">> \o CollapseWhitespace(Tail(s))
         ELSE <<s[1]>> \o CollapseWhitespace(Tail(s))

RECURSIVE TrimStart(_)
TrimStart(s) ==
    IF Len(s) > 0 /\ IsSpace(s[1]) THEN TrimStart(Tail(s)) ELSE s

RECURSIVE TrimEnd(_)
TrimEnd(s) ==
    IF Len(s) > 0 /\ IsSpace(s[Len(s)]) THEN TrimEnd(SubSeq(s, 1, Len(s) - 1)) ELSE s

trim(s) == TrimEnd(TrimStart(s))

\* delta.toLowerCase().replace(/\s+/g, ' ').trim() (line 22)
Normalize(s) == trim(CollapseWhitespace(toLowerCase(s)))

\* String.prototype.slice(from, to) and slice(from), 0-based, on 1-based sequences
Slice(s, from, to) == SubSeq(s, from + 1, IF to < Len(s) THEN to ELSE Len(s))

SliceFrom(s, from) == SubSeq(s, from + 1, Len(s))

Min2(a, b) == IF a < b THEN a ELSE b

\* distance(a, b) of fastest-levenshtein: the Levenshtein edit distance
RECURSIVE distance(_, _)
distance(a, b) ==
    IF Len(a) = 0 THEN Len(b)
    ELSE IF Len(b) = 0 THEN Len(a)
    ELSE IF Head(a) = Head(b) THEN distance(Tail(a), Tail(b))
    ELSE 1 + Min2(distance(Tail(a), Tail(b)),
                  Min2(distance(Tail(a), b), distance(a, Tail(b))))

(***************************************************************************)
(* SessionState                                                            *)
(***************************************************************************)
\* new SessionState() (lines 10-15)
NewSessionState ==
    [reasoningHistory |-> <<>>, abortMessageID |-> Undefined, pendingAbort |-> FALSE]

\* Mutant: the loop of lines 40-42 is missing
Evict_Missing(h) == h

\* Mutant: pop() for shift() in line 41
RECURSIVE Evict_Newest(_)
Evict_Newest(h) ==
    IF Len(h) > MAX_REASONING_HISTORY_SEGMENTS
    THEN Evict_Newest(SubSeq(h, 1, Len(h) - 1))
    ELSE h

\* while (length > MAX_REASONING_HISTORY_SEGMENTS) shift() (lines 40-42)
RECURSIVE Evict(_)
Evict(h) ==
    IF Len(h) > MAX_REASONING_HISTORY_SEGMENTS THEN Evict(Tail(h)) ELSE h

\* Lines 31-38.  With an empty array, length - 1 is -1: the assignment of
\* line 32 then sets the property "-1", which is no element of the array, and
\* only the pushed remainder is kept.
StoreTrace(h, reasoningTrace) ==
    IF Len(reasoningTrace) > MAX_REASONING_TRACE_LEN
    THEN IF Len(h) = 0
         THEN <<SliceFrom(reasoningTrace, MAX_REASONING_TRACE_LEN)>>
         ELSE Append([h EXCEPT ![Len(h)] = Slice(reasoningTrace, 0, MAX_REASONING_TRACE_LEN)],
                     SliceFrom(reasoningTrace, MAX_REASONING_TRACE_LEN))
    ELSE IF Len(h) > 0
         THEN [h EXCEPT ![Len(h)] = reasoningTrace]
         ELSE Append(h, reasoningTrace)

\* SessionState.updateDelta(delta?) (lines 17-43): the new reasoningHistory
updateDelta(h, delta) ==
    IF ~delta.defined THEN h
    ELSE LET normalizedDelta == Normalize(delta.val)
             reasoningTrace == (IF Len(h) # 0 THEN h[Len(h)] ELSE <<>>) \o normalizedDelta
         IN  Evict(StoreTrace(h, reasoningTrace))

\* Mutant: the test of line 54 is missing, the last distance computed is kept
RECURSIVE MinDistanceLoop_KeepsLast(_, _, _, _)
MinDistanceLoop_KeepsLast(h, lastTrace, i, minDistance) ==
    IF i > Len(h) - 1 THEN minDistance
    ELSE MinDistanceLoop_KeepsLast(h, lastTrace, i + 1, distance(lastTrace, h[i]))

\* The loop of lines 51-57 over reasoningHistory.slice(0, length - 1)
RECURSIVE MinDistanceLoop(_, _, _, _)
MinDistanceLoop(h, lastTrace, i, minDistance) ==
    IF i > Len(h) - 1 THEN minDistance
    ELSE LET lDistance == distance(lastTrace, h[i])
         IN  MinDistanceLoop(h, lastTrace, i + 1,
                             IF lDistance < minDistance THEN lDistance ELSE minDistance)

\* SessionState.getMinSimilarity() (lines 45-60)
getMinSimilarity(h) ==
    IF Len(h) = 0 THEN 0
    ELSE MinDistanceLoop(h, h[Len(h)], 1, INITIAL_MIN_DISTANCE)

\* Mutant: <= for < in line 72
BelowThreshold_OrEqual(minSimilarity) == minSimilarity <= MIN_LEVENSHTEIN_DISTANCE

\* minSimilarity < MIN_LEVENSHTEIN_DISTANCE (line 72)
BelowThreshold(minSimilarity) == minSimilarity < MIN_LEVENSHTEIN_DISTANCE

\* Mutant: the check of lines 63-65 is missing
TooShort_Missing(h) == FALSE

\* length < MAX_REASONING_HISTORY_SEGMENTS (line 63)
TooShort(h) == Len(h) < MAX_REASONING_HISTORY_SEGMENTS

\* SessionState.detectThoughtLoop(minSimilarity?) (lines 62-83)
detectThoughtLoop(h, minSimilarity) ==
    IF TooShort(h) THEN FALSE
    ELSE IF Len(h) = 0 THEN FALSE
    ELSE IF minSimilarity.defined THEN BelowThreshold(minSimilarity.val)
    ELSE \E i \in 1..(Len(h) - 1) :
            distance(h[Len(h)], h[i]) < MIN_LEVENSHTEIN_DISTANCE

(***************************************************************************)
(* ThoughtLoopDetector                                                     *)
(***************************************************************************)
NoLog == ""

\* this.debug / this.info / this.warn / this.error (lines 185-210): the line
\* written; the session id, where the code writes one, is left out
Log(msg, sid) == msg

AbortCall(sid) == [op |-> "abort", sid |-> sid, messageID |-> Undefined]

PromptCall(sid, mid) == [op |-> "prompt", sid |-> sid, messageID |-> mid]

\* Raw deltas delivered to the detector: absent, white space only, and
\* full-length segments of one letter, in either case.
Full(c) == [i \in 1..MAX_REASONING_TRACE_LEN |-> c]

DeltasOver(letters) == {NoValue} \cup {Some(Full(c)) : c \in letters}

\* Two sessions, one letter in both cases
TwoSessionDeltas == DeltasOver({"a", "A"})

Letters == <<"a", "b", "c", "d", "e", "f">>

\* One session: as many letters as the history holds segments, so that the
\* segments of a full history can differ pairwise; a one-letter delta, which
\* leaves segments that differ in part; upper case and white space
OneSessionDeltas ==
    DeltasOver({Letters[i] : i \in 1..MAX_REASONING_HISTORY_SEGMENTS} \cup {"A"})
    \cup {Some(<<"a">>), Some(<<" ">>)}

\* Results of the two awaited calls: promptRes.error / promptRes.data.info.id,
\* and abortRes.error / abortRes.data
PromptResults ==
    {[error |-> TRUE, id |-> Undefined]} \cup {[error |-> FALSE, id |-> m] : m \in PromptIds}

AbortResults == {"error", "true", "false"}

\* promptRes before line 162 has assigned it
NotReturned == [error |-> FALSE, id |-> Undefined]

\* Mutant: a session that is created is handed a SessionState that another
\* session already holds
NewObj_Shared(hp, sid) ==
    IF DOMAIN hp # {} THEN CHOOSE o \in DOMAIN hp : TRUE ELSE <<sid, 0>>

\* Identity of a freshly constructed object: an unused one
NewObj(hp, sid) ==
    <<sid, CHOOSE k \in 0..MaxConts :
              /\ <<sid, k>> \notin DOMAIN hp
              /\ \A j \in 0..MaxConts : <<sid, j>> \notin DOMAIN hp => k <= j>>

Referenced(sess, cs) ==
    {sess[s] : s \in DOMAIN sess} \cup {cs[i].obj : i \in 1..Len(cs)}

\* An object no reference leads to is gone
Collect(hp, sess, cs) == [o \in DOMAIN hp \cap Referenced(sess, cs) |-> hp[o]]

RemoveAt(seq, i) == SubSeq(seq, 1, i - 1) \o SubSeq(seq, i + 1, Len(seq))

\* The state of session sid as the registry sees it
State(sid) == heap[sessions[sid]]

Registered(sid) == sid \in DOMAIN sessions

\* Mutant: the test of line 110 is missing, an existing entry is reset
handleSessionCreated_Resets(sid) ==
    /\ IF sid \notin DOMAIN sessions
       THEN LET o == NewObj(heap, sid)
            IN  /\ sessions' = sessions @@ (sid :> o)
                /\ heap' = heap @@ (o :> NewSessionState)
       ELSE /\ UNCHANGED sessions
            /\ heap' = [heap EXCEPT ![sessions[sid]] = NewSessionState]
    /\ log' = Log("Session state created", sid)
    /\ calls' = <<>>
    /\ UNCHANGED <<conts, uHistory, uRet>>

\* handleSessionCreated (lines 109-114)
handleSessionCreated(sid) ==
    /\ IF sid \notin DOMAIN sessions
       THEN LET o == NewObj(heap, sid)
            IN  /\ sessions' = sessions @@ (sid :> o)
                /\ heap' = heap @@ (o :> NewSessionState)
                /\ log' = Log("Session state created", sid)
       ELSE /\ UNCHANGED <<sessions, heap>>
            /\ log' = NoLog
    /\ calls' = <<>>
    /\ UNCHANGED <<conts, uHistory, uRet>>

\* handleSessionDeleted (lines 116-121)
handleSessionDeleted(sid) ==
    /\ IF sid \in DOMAIN sessions
       THEN LET sess == [s \in DOMAIN sessions \ {sid} |-> sessions[s]]
            IN  /\ sessions' = sess
                /\ heap' = Collect(heap, sess, conts)
                /\ log' = Log("Session state deleted", sid)
       ELSE /\ UNCHANGED <<sessions, heap>>
            /\ log' = NoLog
    /\ calls' = <<>>
    /\ UNCHANGED <<conts, uHistory, uRet>>

\* event.properties.part.messageID === sessionState.abortMessageID (line 136)
IsEcho(st, mid) == mid = st.abortMessageID

\* Mutant: the check of line 143 is missing
IsPending_Missing(st) == FALSE

\* if (sessionState.pendingAbort) (line 143)
IsPending(st) == st.pendingAbort

\* Mutant: line 160 is missing, the history is kept when a loop is declared
DeclareLoop_KeepsHistory(st) == [st EXCEPT !.pendingAbort = TRUE]

\* Lines 151-160: the state the object is left in when a loop is declared
DeclareLoop(st) == [st EXCEPT !.pendingAbort = TRUE, !.reasoningHistory = <<>>]

\* Mutant: line 137 is missing
ClearAbort_KeepsId(st) == [st EXCEPT !.pendingAbort = FALSE]

\* Mutant: line 138 is missing
ClearAbort_KeepsFlag(st) == [st EXCEPT !.abortMessageID = Undefined]

\* Lines 137-138
ClearAbort(st) == [st EXCEPT !.abortMessageID = Undefined, !.pendingAbort = FALSE]

\* Mutant: the test of line 125 is missing, every part is taken for reasoning
IsReasoning_Any(ptype) == TRUE

\* event.properties.part.type === "reasoning" (line 125)
IsReasoning(ptype) == ptype = "reasoning"

\* handleMessagePartUpdate up to its first await (lines 123-161)
handleMessagePartUpdate(sid, mid, ptype, delta) ==
    IF ~IsReasoning(ptype)
    THEN /\ calls' = <<>>
         /\ log' = NoLog
         /\ UNCHANGED <<sessions, heap, conts, uHistory, uRet>>
    ELSE LET isNew == sid \notin DOMAIN sessions
             o == IF isNew THEN NewObj(heap, sid) ELSE sessions[sid]
             sess == IF isNew THEN sessions @@ (sid :> o) ELSE sessions
             hp == IF isNew THEN heap @@ (o :> NewSessionState) ELSE heap
             st == hp[o]
             h == updateDelta(st.reasoningHistory, delta)
             similarity == getMinSimilarity(h)
         IN  /\ sessions' = sess
             /\ UNCHANGED <<uHistory, uRet>>
             /\ IF IsEcho(st, mid)
                THEN /\ heap' = [hp EXCEPT ![o] = ClearAbort(st)]
                     /\ log' = Log("successfully detected system abort", sid)
                     /\ calls' = <<>>
                     /\ UNCHANGED conts
                ELSE IF IsPending(st)
                THEN /\ heap' = hp
                     /\ log' = Log("pending session abort", sid)
                     /\ calls' = <<>>
                     /\ UNCHANGED conts
                ELSE IF detectThoughtLoop(h, Num(similarity))
                THEN /\ Len(conts) < MaxConts
                     /\ heap' = [hp EXCEPT ![o] = DeclareLoop([st EXCEPT !.reasoningHistory = h])]
                     /\ calls' = <<AbortCall(sid), PromptCall(sid, mid)>>
                     /\ conts' = Append(conts, [obj |-> o, sid |-> sid, pc |-> "162",
                                                promptRes |-> NotReturned])
                     /\ log' = Log("similarity", sid)
                ELSE /\ heap' = [hp EXCEPT ![o].reasoningHistory = h]
                     /\ log' = Log("similarity", sid)
                     /\ calls' = <<>>
                     /\ UNCHANGED conts

\* handleEvent, default branch (lines 104-105): any other event kind
handleOtherEvent ==
    /\ calls' = <<>>
    /\ log' = NoLog
    /\ UNCHANGED <<sessions, heap, conts, uHistory, uRet>>

\* const promptRes = await promptPromise (line 162): the tail resumes with
\* what the injection returned
AwaitPrompt(i, promptRes) ==
    /\ conts[i].pc = "162"
    /\ conts' = [conts EXCEPT ![i].pc = "163", ![i].promptRes = promptRes]
    /\ calls' = <<>>
    /\ log' = NoLog
    /\ UNCHANGED <<sessions, heap, uHistory, uRet>>

\* const abortRes = await abortPromise, then this.warn is called (lines
\* 163-164).  abortRes is first read in line 172, and decides log lines only:
\* its value is drawn there.
AwaitAbort(i) ==
    /\ conts[i].pc = "163"
    /\ conts' = [conts EXCEPT ![i].pc = "164"]
    /\ calls' = <<>>
    /\ log' = Log("Thought loop detected", conts[i].sid)
    /\ UNCHANGED <<sessions, heap, uHistory, uRet>>

\* Mutant: line 170 also ends the cycle
RecordAbortMessageID_ClearsFlag(st, promptRes) ==
    [st EXCEPT !.abortMessageID = promptRes.id, !.pendingAbort = FALSE]

\* Mutant: line 170 is missing
RecordAbortMessageID_Missing(st, promptRes) == st

\* sessionState.abortMessageID = promptRes.data.info.id (line 170), on the
\* object the handler started with
RecordAbortMessageID(st, promptRes) == [st EXCEPT !.abortMessageID = promptRes.id]

\* The last line logged by lines 166-181
FinalLog(sid, promptRes, abortRes) ==
    IF promptRes.error THEN Log("failed to inject prompt", sid)
    ELSE IF abortRes # "true" THEN Log("failed to abort session", sid)
    ELSE Log("successfully aborted session", sid)

\* Mutant: line 170 looks the session up in the registry again instead of
\* using the object the handler started with
AfterWarn_ViaRegistry(i, abortRes) ==
    /\ conts[i].pc = "164"
    /\ LET c == conts[i]
           cs == RemoveAt(conts, i)
           hp == IF c.promptRes.error \/ c.sid \notin DOMAIN sessions
                 THEN heap
                 ELSE [heap EXCEPT ![sessions[c.sid]] = RecordAbortMessageID(@, c.promptRes)]
       IN  /\ conts' = cs
           /\ heap' = Collect(hp, sessions, cs)
           /\ log' = FinalLog(c.sid, c.promptRes, abortRes)
    /\ calls' = <<>>
    /\ UNCHANGED <<sessions, uHistory, uRet>>

\* Lines 166-181, entered when the await of line 164 returns.  The awaits that
\* follow line 170 only write log lines.
AfterWarn(i, abortRes) ==
    /\ conts[i].pc = "164"
    /\ LET c == conts[i]
           cs == RemoveAt(conts, i)
           hp == IF c.promptRes.error
                 THEN heap
                 ELSE [heap EXCEPT ![c.obj] = RecordAbortMessageID(@, c.promptRes)]
       IN  /\ conts' = cs
           /\ heap' = Collect(hp, sessions, cs)
           /\ log' = FinalLog(c.sid, c.promptRes, abortRes)
    /\ calls' = <<>>
    /\ UNCHANGED <<sessions, uHistory, uRet>>

(***************************************************************************)
(* A stand-alone SessionState, driven method by method                     *)
(***************************************************************************)
UnitChars == {"a", "b"}

SeqsUpTo(S, n) == UNION {[1..k -> S] : k \in 0..n}

\* Raw deltas: absent, every text of up to two letters, runs of one letter up
\* to MaxDeltaLen, and texts with upper case and white space
UnitDeltas ==
    {NoValue} \cup {Some(d) : d \in SeqsUpTo(UnitChars, 2)}
    \cup {Some([i \in 1..k |-> "a"]) : k \in 3..MaxDeltaLen}
    \cup {Some(<<"A">>), Some(<<"\t">>), Some(<<" ", "b", " ", "\t", "A", " ">>)}

\* minSimilarity arguments: absent, around the threshold, and the sentinel
UnitDistances ==
    {NoNumber, Num(INITIAL_MIN_DISTANCE)}
    \cup {Num(n) : n \in 0..(MIN_LEVENSHTEIN_DISTANCE + 1)}

NoCall == [op |-> "", val |-> 0]

Longest(h) == IF h = <<>> THEN 0
              ELSE CHOOSE n \in {Len(h[i]) : i \in 1..Len(h)} :
                      \A i \in 1..Len(h) : Len(h[i]) <= n

CallUpdateDelta(delta) ==
    /\ Longest(updateDelta(uHistory, delta)) <= MaxStoredLen
    /\ uHistory' = updateDelta(uHistory, delta)
    /\ uRet' = [op |-> "updateDelta", val |-> 0]
    /\ UNCHANGED <<sessions, heap, conts, calls, log>>

CallGetMinSimilarity ==
    /\ uRet' = [op |-> "getMinSimilarity", val |-> getMinSimilarity(uHistory)]
    /\ UNCHANGED <<sessions, heap, conts, calls, log, uHistory>>

CallDetectThoughtLoop(minSimilarity) ==
    /\ uRet' = [op |-> "detectThoughtLoop",
                val |-> IF detectThoughtLoop(uHistory, minSimilarity) THEN 1 ELSE 0]
    /\ UNCHANGED <<sessions, heap, conts, calls, log, uHistory>>

(***************************************************************************)
(* Specifications                                                          *)
(***************************************************************************)
Init ==
    /\ sessions = [s \in {} |-> <<"", 0>>]
    /\ heap = [o \in {} |-> NewSessionState]
    /\ conts = <<>>
    /\ calls = <<>>
    /\ log = NoLog
    /\ uHistory = <<>>
    /\ uRet = NoCall

\* The host delivers events in any order, and an awaited call returns at any
\* time: handleEvent (lines 93-107) dispatches on the event's type.
handleEvent(S, D) ==
    \/ \E sid \in S : handleSessionCreated(sid)
    \/ \E sid \in S : handleSessionDeleted(sid)
    \/ \E sid \in S, mid \in MsgIds, delta \in D :
          handleMessagePartUpdate(sid, mid, "reasoning", delta)
    \/ \E sid \in S, mid \in MsgIds :
          handleMessagePartUpdate(sid, mid, "text", Some(Full("a")))
    \/ handleOtherEvent

Resume ==
    \/ \E i \in 1..Len(conts), promptRes \in PromptResults : AwaitPrompt(i, promptRes)
    \/ \E i \in 1..Len(conts) : AwaitAbort(i)
    \/ \E i \in 1..Len(conts), abortRes \in AbortResults : AfterWarn(i, abortRes)

Next == handleEvent(Sessions, TwoSessionDeltas) \/ Resume

Spec == Init /\ [][Next]_vars

\* Every awaited call settles: a handler suspended at line 162, 163 or 164 is
\* resumed.  Nothing obliges the host to deliver another event.
SpecFair == Spec /\ WF_vars(Resume)

NextOne == handleEvent({"s1"}, OneSessionDeltas) \/ Resume

SpecOne == Init /\ [][NextOne]_vars

NextState ==
    \/ \E delta \in UnitDeltas : CallUpdateDelta(delta)
    \/ CallGetMinSimilarity
    \/ \E minSimilarity \in UnitDistances : CallDetectThoughtLoop(minSimilarity)

SpecState == Init /\ [][NextState]_vars

(***************************************************************************)
(* Vocabulary of the properties                                            *)
(***************************************************************************)
AllDeltas == TwoSessionDeltas \cup OneSessionDeltas

\* Session sid has a registry entry whose pendingAbort is set
InFlight(sid) == Registered(sid) /\ State(sid).pendingAbort

\* The calls of the last step that name session sid
CallsFor(cs, sid) == SelectSeq(cs, LAMBDA c : c.sid = sid)

\* The calls one declared loop issues for sid: one abort, one prompt
IsOneAbortOnePrompt(cs, sid) ==
    /\ Len(cs) = 2
    /\ cs[1] = AbortCall(sid)
    /\ \E m \in MsgIds : cs[2] = PromptCall(sid, m)

(***************************************************************************)
(* C1.  From the step that declares a loop for a registry entry until the  *)
(* echo clears its pendingAbort, one abort call and one prompt call are    *)
(* issued for the session: the step that puts the entry in flight issues   *)
(* exactly one of each, a step that leaves the same entry in flight issues *)
(* none, and no other step issues a call for the session, however many     *)
(* deltas arrive and whenever the awaited calls return.                    *)
(***************************************************************************)
C1_StaysInFlight(sid) ==
    /\ InFlight(sid)
    /\ InFlight(sid)'
    /\ sessions'[sid] = sessions[sid]

C1_OneAbortOnePromptPerCycle ==
    [][\A sid \in Sessions :
          /\ (InFlight(sid)' /\ ~C1_StaysInFlight(sid))
                => IsOneAbortOnePrompt(CallsFor(calls', sid), sid)
          /\ C1_StaysInFlight(sid) => CallsFor(calls', sid) = <<>>
          /\ CallsFor(calls', sid) # <<>>
                => (InFlight(sid)' /\ ~C1_StaysInFlight(sid))]_vars

\* A delta was discarded for an entry in flight after its two calls were issued
\* and the tail had recorded the injected id
C1_Witness ==
    /\ log = "pending session abort"
    /\ \E sid \in Sessions : InFlight(sid) /\ State(sid).abortMessageID # Undefined

(***************************************************************************)
(* C2.  Echo suppression: a reasoning delta for a session whose messageID  *)
(* equals the recorded abortMessageID M clears abortMessageID and          *)
(* pendingAbort, leaves reasoningHistory as it was, issues no call and     *)
(* starts no asynchronous tail.                                            *)
(***************************************************************************)
C2_EchoSuppression ==
    [][\A sid \in Sessions, mid \in MsgIds, delta \in AllDeltas :
          (/\ Registered(sid)
           /\ State(sid).abortMessageID = mid
           /\ handleMessagePartUpdate(sid, mid, "reasoning", delta))
          => /\ Registered(sid)'
             /\ State(sid)'.abortMessageID = Undefined
             /\ State(sid)'.pendingAbort = FALSE
             /\ State(sid)'.reasoningHistory = State(sid).reasoningHistory
             /\ calls' = <<>>
             /\ conts' = conts]_vars

\* The echo was just recognised, with the session's tail finished
C2_Witness ==
    /\ log = "successfully detected system abort"
    /\ \E sid \in Sessions :
          /\ Registered(sid)
          /\ ~State(sid).pendingAbort
          /\ State(sid).abortMessageID = Undefined
          /\ \A i \in 1..Len(conts) : conts[i].sid # sid

(***************************************************************************)
(* C3.  Suppression while in flight: a reasoning delta for a session whose *)
(* pendingAbort is set and whose messageID differs from abortMessageID     *)
(* leaves the session's reasoningHistory, pendingAbort and abortMessageID  *)
(* unchanged, issues no call and starts no asynchronous tail.              *)
(***************************************************************************)
C3_SuppressedWhileInFlight ==
    [][\A sid \in Sessions, mid \in MsgIds, delta \in AllDeltas :
          (/\ Registered(sid)
           /\ State(sid).pendingAbort
           /\ State(sid).abortMessageID # mid
           /\ handleMessagePartUpdate(sid, mid, "reasoning", delta))
          => /\ Registered(sid)'
             /\ State(sid)' = State(sid)
             /\ calls' = <<>>
             /\ conts' = conts]_vars

\* A delta was discarded while the two calls were still outstanding
C3_Witness ==
    /\ log = "pending session abort"
    /\ \E i \in 1..Len(conts) :
          /\ conts[i].pc = "162"
          /\ InFlight(conts[i].sid)
          /\ sessions[conts[i].sid] = conts[i].obj

(***************************************************************************)
(* C4, as claimed: in every reachable state, abortMessageID of a session   *)
(* is set if and only if its pendingAbort is true.                         *)
(***************************************************************************)
C4_SetIffInFlight ==
    \A sid \in Sessions :
        Registered(sid) =>
            ((State(sid).abortMessageID # Undefined) <=> State(sid).pendingAbort)

(***************************************************************************)
(* C4, amended: in every reachable state, a SessionState whose             *)
(* abortMessageID is set has pendingAbort true, and a step that clears     *)
(* pendingAbort of a registry entry leaves its abortMessageID unset.       *)
(***************************************************************************)
C4_SetImpliesInFlight ==
    /\ [](\A o \in DOMAIN heap :
             heap[o].abortMessageID # Undefined => heap[o].pendingAbort)
    /\ [][\A sid \in Sessions :
             (InFlight(sid) /\ Registered(sid)' /\ sessions'[sid] = sessions[sid]
                 /\ ~State(sid)'.pendingAbort)
             => State(sid)'.abortMessageID = Undefined]_vars

\* The injected id is recorded and the entry is in flight
C4_Witness ==
    \E sid \in Sessions :
        /\ InFlight(sid)
        /\ State(sid).abortMessageID \in PromptIds
        /\ log = "successfully aborted session"

(***************************************************************************)
(* More vocabulary                                                         *)
(***************************************************************************)
\* reasoningHistory a reasoning delta for sid starts from: that of the entry,
\* or that of the entry line 132 creates
HistoryOf(sid) == IF Registered(sid) THEN State(sid).reasoningHistory ELSE <<>>

\* The least edit distance between the latest segment of h and an earlier one
MinEditDistance(h) ==
    LET ds == {distance(h[Len(h)], h[i]) : i \in 1..(Len(h) - 1)}
    IN  CHOOSE d \in ds : \A e \in ds : d <= e

\* The last step declared a loop for sid
LoopDeclared(sid) == InFlight(sid) /\ IsOneAbortOnePrompt(CallsFor(calls, sid), sid)

\* sid is not in flight, holds as many segments as the cap, all of full
\* length and pairwise distinct: where a fresh session is after that many
\* deltas of one distinct full-length segment each, none declared a loop
E2EReady(sid) ==
    /\ Registered(sid)
    /\ ~State(sid).pendingAbort
    /\ State(sid).abortMessageID = Undefined
    /\ LET h == State(sid).reasoningHistory
       IN  /\ Len(h) = MAX_REASONING_HISTORY_SEGMENTS
           /\ \A i \in 1..Len(h) : Len(h[i]) = MAX_REASONING_TRACE_LEN
           /\ \A i, j \in 1..Len(h) : i # j => h[i] # h[j]

\* From E2EReady, a delta that forms a new segment identical to segment k
\* declares a loop: one abort and one prompt call, and an empty trace after
E2ERepeatDeclaresLoop(sid, k) ==
    \A mid \in MsgIds, delta \in AllDeltas :
        (/\ E2EReady(sid)
         /\ delta.defined
         /\ Normalize(delta.val) = State(sid).reasoningHistory[k]
         /\ handleMessagePartUpdate(sid, mid, "reasoning", delta))
        => /\ calls' = <<AbortCall(sid), PromptCall(sid, mid)>>
           /\ InFlight(sid)'
           /\ State(sid)'.reasoningHistory = <<>>

\* A delta that carries the recorded id of the injected message resolves
\* pendingAbort to false
E2EEchoResolves(sid) ==
    \A mid \in MsgIds, delta \in AllDeltas :
        (/\ InFlight(sid)
         /\ State(sid).abortMessageID = mid
         /\ handleMessagePartUpdate(sid, mid, "reasoning", delta))
        => (Registered(sid)' /\ ~State(sid)'.pendingAbort)

(***************************************************************************)
(* C5, as claimed: for a fresh session, after cap deltas that each form a  *)
(* distinct full-length segment with no loop declared, a delta that forms  *)
(* a new segment identical to segment 1 declares a loop (one abort call,   *)
(* one prompt call, empty trace right after), and a later delta carrying   *)
(* the returned id sets pendingAbort back to false.                        *)
(***************************************************************************)
C5_RepeatOfFirstDeclaresLoop ==
    [][E2ERepeatDeclaresLoop("s1", 1) /\ E2EEchoResolves("s1")]_vars

(***************************************************************************)
(* C5, amended: as above, for a delta that forms a new segment identical   *)
(* to one of the segments 2..cap, which are the ones still retained once   *)
(* segment 1 has been evicted; the delta that resolves pendingAbort is one *)
(* processed after the returned id has been recorded in abortMessageID.    *)
(***************************************************************************)
C5_RepeatOfRetainedDeclaresLoop ==
    [][/\ \A k \in 2..MAX_REASONING_HISTORY_SEGMENTS : E2ERepeatDeclaresLoop("s1", k)
       /\ E2EEchoResolves("s1")]_vars

\* The session holds cap distinct full-length segments, and a delta equal to
\* its second segment is about to declare a loop
C5_Witness ==
    /\ E2EReady("s1")
    /\ ENABLED (\E mid \in MsgIds, delta \in OneSessionDeltas :
                   /\ delta.defined
                   /\ Normalize(delta.val) = State("s1").reasoningHistory[2]
                   /\ handleMessagePartUpdate("s1", mid, "reasoning", delta)
                   /\ calls' # <<>>)

(***************************************************************************)
(* C6.  A reasoning delta that is ingested and brings (or keeps) the       *)
(* segment count at the cap declares a loop if and only if the least edit  *)
(* distance between the latest segment and the earlier retained segments   *)
(* is strictly below MIN_LEVENSHTEIN_DISTANCE.                             *)
(***************************************************************************)
C6_LoopIffBelowThreshold ==
    [][\A sid \in Sessions, mid \in MsgIds, delta \in AllDeltas :
          LET h == updateDelta(HistoryOf(sid), delta)
          IN  (/\ handleMessagePartUpdate(sid, mid, "reasoning", delta)
               /\ ~InFlight(sid)
               /\ Registered(sid) => State(sid).abortMessageID # mid
               /\ Len(h) = MAX_REASONING_HISTORY_SEGMENTS)
              => /\ LoopDeclared(sid)' <=> MinEditDistance(h) < MIN_LEVENSHTEIN_DISTANCE
                 /\ ~LoopDeclared(sid)' => (calls' = <<>> /\ ~InFlight(sid)')]_vars

\* A delta was ingested at the cap and no loop was declared: every earlier
\* segment is at least MIN_LEVENSHTEIN_DISTANCE away from the latest
C6_Witness ==
    /\ log = "similarity"
    /\ calls = <<>>
    /\ Registered("s1")
    /\ ~State("s1").pendingAbort
    /\ Len(State("s1").reasoningHistory) = MAX_REASONING_HISTORY_SEGMENTS
    /\ MinEditDistance(State("s1").reasoningHistory) >= MIN_LEVENSHTEIN_DISTANCE

(***************************************************************************)
(* C7.  Below the cap no loop is declared: detectThoughtLoop is false for  *)
(* every reachable history shorter than the cap, whatever distance is      *)
(* handed to it, and a reasoning delta that leaves the segment count below *)
(* the cap issues no abort or prompt call and puts no session in flight.   *)
(***************************************************************************)
C7_NoLoopBelowCap ==
    /\ [](\A sid \in Sessions, minSimilarity \in UnitDistances :
             (Registered(sid)
                 /\ Len(State(sid).reasoningHistory) < MAX_REASONING_HISTORY_SEGMENTS)
             => ~detectThoughtLoop(State(sid).reasoningHistory, minSimilarity))
    /\ [][\A sid \in Sessions, mid \in MsgIds, delta \in AllDeltas :
             (/\ handleMessagePartUpdate(sid, mid, "reasoning", delta)
              /\ Len(updateDelta(HistoryOf(sid), delta)) < MAX_REASONING_HISTORY_SEGMENTS)
             => /\ calls' = <<>>
                /\ conts' = conts
                /\ ~InFlight(sid) => ~InFlight(sid)']_vars

\* Identical segments were ingested below the cap and no loop was declared
C7_Witness ==
    /\ log = "similarity"
    /\ calls = <<>>
    /\ Registered("s1")
    /\ ~State("s1").pendingAbort
    /\ LET h == State("s1").reasoningHistory
       IN  /\ Len(h) > 1
           /\ Len(h) < MAX_REASONING_HISTORY_SEGMENTS
           /\ \A i \in 1..Len(h) : h[i] = h[1]

(***************************************************************************)
(* C8.  After any sequence of updateDelta calls the segment count is at    *)
(* most the cap and every segment but the last has exactly                 *)
(* MAX_REASONING_TRACE_LEN characters; a call that overflows the last      *)
(* segment at the cap drops the oldest segment alone, the others moving up *)
(* by one, and every other call keeps each segment before the last in      *)
(* place.                                                                  *)
(***************************************************************************)
C8_KeepsPrefix ==
    /\ Len(uHistory') >= Len(uHistory)
    /\ \A i \in 1..(Len(uHistory) - 1) : uHistory'[i] = uHistory[i]

C8_DropsOldest ==
    /\ Len(uHistory) = MAX_REASONING_HISTORY_SEGMENTS
    /\ Len(uHistory') = MAX_REASONING_HISTORY_SEGMENTS
    /\ \A i \in 1..(Len(uHistory) - 2) : uHistory'[i] = uHistory[i + 1]
    /\ LET n == Len(uHistory)
           k == Min2(Len(uHistory[n]), MAX_REASONING_TRACE_LEN)
       IN  SubSeq(uHistory'[n - 1], 1, k) = SubSeq(uHistory[n], 1, k)

C8_CapAndFullSegments ==
    /\ [](/\ Len(uHistory) <= MAX_REASONING_HISTORY_SEGMENTS
          /\ \A i \in 1..(Len(uHistory) - 1) :
                Len(uHistory[i]) = MAX_REASONING_TRACE_LEN)
    /\ [][\A delta \in UnitDeltas :
             CallUpdateDelta(delta)
             => IF /\ delta.defined
                   /\ Len(uHistory) = MAX_REASONING_HISTORY_SEGMENTS
                   /\ Len(uHistory[Len(uHistory)] \o Normalize(delta.val))
                         > MAX_REASONING_TRACE_LEN
                THEN C8_DropsOldest
                ELSE C8_KeepsPrefix]_vars

\* The history is at the cap with a short last segment, and the next call can
\* evict the oldest segment
C8_Witness ==
    /\ uRet.op = "updateDelta"
    /\ Len(uHistory) = MAX_REASONING_HISTORY_SEGMENTS
    /\ Len(uHistory[Len(uHistory)]) < MAX_REASONING_TRACE_LEN
    /\ uHistory[1] # uHistory[2]
    /\ ENABLED (\E delta \in UnitDeltas :
                   CallUpdateDelta(delta) /\ C8_DropsOldest /\ ~C8_KeepsPrefix)

(***************************************************************************)
(* C9, as claimed: after any sequence of updateDelta calls every retained  *)
(* segment, the last one included, has at most MAX_REASONING_TRACE_LEN     *)
(* characters.                                                             *)
(***************************************************************************)
C9_EverySegmentBounded ==
    \A i \in 1..Len(uHistory) : Len(uHistory[i]) <= MAX_REASONING_TRACE_LEN

(***************************************************************************)
(* C10.  abortMessageID of an object changes to a set value only in the    *)
(* step that follows the awaits of a successful injection, and then to the *)
(* id that injection returned, whatever the abort returned; after a failed *)
(* injection that step leaves it unset; a new object starts with it unset. *)
(***************************************************************************)
C10_RecordedAfterSuccessfulInjection ==
    [][/\ \A i \in 1..Len(conts), abortRes \in AbortResults :
             (AfterWarn(i, abortRes) /\ conts[i].obj \in DOMAIN heap')
             => heap'[conts[i].obj].abortMessageID =
                   IF conts[i].promptRes.error THEN Undefined ELSE conts[i].promptRes.id
       /\ \A o \in DOMAIN heap \cap DOMAIN heap' :
             (/\ heap'[o].abortMessageID # Undefined
              /\ heap'[o].abortMessageID # heap[o].abortMessageID)
             => \E i \in 1..Len(conts), abortRes \in AbortResults :
                   /\ AfterWarn(i, abortRes)
                   /\ conts[i].obj = o
                   /\ ~conts[i].promptRes.error
                   /\ conts[i].promptRes.id = heap'[o].abortMessageID
       /\ \A o \in DOMAIN heap' \ DOMAIN heap :
             heap'[o].abortMessageID = Undefined]_vars

\* The abort failed, and the id of the successful injection is recorded
C10_Witness ==
    /\ log = "failed to abort session"
    /\ \E sid \in Sessions : InFlight(sid) /\ State(sid).abortMessageID \in PromptIds

(***************************************************************************)
(* Vocabulary of C11..C20                                                  *)
(***************************************************************************)
\* A reasoning delta for sid with messageID mid gets past lines 136-146 and
\* is handed to updateDelta (line 147)
ReachesUpdateDelta(sid, mid) ==
    Registered(sid) => (~IsEcho(State(sid), mid) /\ ~IsPending(State(sid)))

\* The tail i ends in this step reporting a failed injection or a failed abort
FailureReported(i, abortRes) ==
    /\ AfterWarn(i, abortRes)
    /\ conts[i].promptRes.error \/ abortRes # "true"

(***************************************************************************)
(* C11, as claimed: once a cycle of a session has ended with a failed      *)
(* injection or a failed abort, reasoning deltas are still accumulated: a  *)
(* delta for another session that was not in flight is handed to           *)
(* updateDelta, so is a later delta for the same session (one that does   *)
(* not carry the recorded id), and a delta handed to updateDelta either    *)
(* extends the trace or declares a loop.                                   *)
(***************************************************************************)
C11_ServiceableAfterFailure ==
    [][/\ \A i \in 1..Len(conts), abortRes \in AbortResults :
             FailureReported(i, abortRes)
             => \A sid \in Sessions, mid \in MsgIds :
                   /\ (sid # conts[i].sid /\ ReachesUpdateDelta(sid, mid))
                         => ReachesUpdateDelta(sid, mid)'
                   /\ (/\ sid = conts[i].sid
                       /\ Registered(sid)'
                       /\ State(sid)'.abortMessageID # mid)
                         => ReachesUpdateDelta(sid, mid)'
       /\ \A sid \in Sessions, mid \in MsgIds, delta \in AllDeltas :
             (/\ handleMessagePartUpdate(sid, mid, "reasoning", delta)
              /\ ReachesUpdateDelta(sid, mid))
             => \/ LoopDeclared(sid)'
                \/ State(sid)'.reasoningHistory = updateDelta(HistoryOf(sid), delta)]_vars

\* The step is the processing of an event of session a, or the return of one
\* of the calls awaited for a
EventFor(a) ==
    \/ handleSessionCreated(a)
    \/ handleSessionDeleted(a)
    \/ \E mid \in MsgIds, delta \in AllDeltas :
          handleMessagePartUpdate(a, mid, "reasoning", delta)
    \/ \E mid \in MsgIds : handleMessagePartUpdate(a, mid, "text", Some(Full("a")))
    \/ \E i \in 1..Len(conts) :
          /\ conts[i].sid = a
          /\ \/ \E promptRes \in PromptResults : AwaitPrompt(i, promptRes)
             \/ AwaitAbort(i)
             \/ \E abortRes \in AbortResults : AfterWarn(i, abortRes)

\* The suspended tails of session sid
TailsOf(cs, sid) == SelectSeq(cs, LAMBDA c : c.sid = sid)

\* The step leaves everything of session b as it was: its registry entry, the
\* SessionState behind it, its suspended tails and the objects they hold
Untouched(b) ==
    /\ Registered(b)' <=> Registered(b)
    /\ Registered(b) => (sessions'[b] = sessions[b] /\ State(b)' = State(b))
    /\ TailsOf(conts', b) = TailsOf(conts, b)
    /\ \A i \in 1..Len(conts) :
          conts[i].sid = b
          => (conts[i].obj \in DOMAIN heap' /\ heap'[conts[i].obj] = heap[conts[i].obj])

(***************************************************************************)
(* C12.  Session isolation: a step that processes an event of session a   *)
(* (created, deleted, a part update, the return of a call awaited for a)   *)
(* leaves the registry entry of every other session b, its reasoning       *)
(* history, pendingAbort and abortMessageID, and b's suspended tails       *)
(* unchanged, and issues no call for b.                                    *)
(***************************************************************************)
C12_SessionIsolation ==
    [][\A a \in Sessions, b \in Sessions :
          (a # b /\ EventFor(a))
          => (Untouched(b) /\ CallsFor(calls', b) = <<>>)]_vars

\* Both sessions hold state of their own: s1 is in flight with its tail
\* finished, s2 has accumulated segments
C12_Witness ==
    /\ InFlight("s1")
    /\ State("s1").abortMessageID # Undefined
    /\ Registered("s2")
    /\ ~State("s2").pendingAbort
    /\ Len(State("s2").reasoningHistory) = MAX_REASONING_HISTORY_SEGMENTS - 1

(***************************************************************************)
(* C13.  Registry lifecycle: session.created and a reasoning part update   *)
(* leave an entry for their session, session.deleted leaves none, and no   *)
(* other step adds or removes an entry; session.created for a session      *)
(* that has an entry keeps the entry and its reasoning history,            *)
(* pendingAbort and abortMessageID.                                        *)
(***************************************************************************)
C13_RegistryLifecycle ==
    [][\A sid \in Sessions :
          /\ handleSessionCreated(sid)
                => /\ Registered(sid)'
                   /\ Registered(sid)
                         => (sessions'[sid] = sessions[sid] /\ State(sid)' = State(sid))
          /\ (\E mid \in MsgIds, delta \in AllDeltas :
                 handleMessagePartUpdate(sid, mid, "reasoning", delta))
                => /\ Registered(sid)'
                   /\ Registered(sid) => sessions'[sid] = sessions[sid]
          /\ handleSessionDeleted(sid) => ~Registered(sid)'
          /\ (~Registered(sid) /\ Registered(sid)')
                => \/ handleSessionCreated(sid)
                   \/ \E mid \in MsgIds, delta \in AllDeltas :
                         handleMessagePartUpdate(sid, mid, "reasoning", delta)
          /\ (Registered(sid) /\ ~Registered(sid)') => handleSessionDeleted(sid)
          /\ (Registered(sid) /\ Registered(sid)') => sessions'[sid] = sessions[sid]]_vars

\* s1 was deleted while its calls were outstanding and has no entry; s2 has
\* an entry with accumulated segments
C13_Witness ==
    /\ ~Registered("s1")
    /\ \E i \in 1..Len(conts) : conts[i].sid = "s1"
    /\ Registered("s2")
    /\ State("s2").reasoningHistory # <<>>

(***************************************************************************)
(* C14, as claimed: getMinSimilarity returns 0 for an empty history and    *)
(* for a history of exactly one segment, and otherwise the least edit      *)
(* distance from the latest segment to the other retained segments.        *)
(***************************************************************************)
C14_ZeroWithoutPriorSegment ==
    uRet.op = "getMinSimilarity"
    => uRet.val = IF Len(uHistory) <= 1 THEN 0 ELSE MinEditDistance(uHistory)

(***************************************************************************)
(* C14, amended: getMinSimilarity returns 0 for an empty history, the      *)
(* initial value 1000000000 for a history of exactly one segment, and      *)
(* otherwise the least edit distance from the latest segment to the other  *)
(* retained segments.                                                      *)
(***************************************************************************)
C14_ZeroOnlyWhenEmpty ==
    uRet.op = "getMinSimilarity"
    => uRet.val = IF Len(uHistory) = 0 THEN 0
                  ELSE IF Len(uHistory) = 1 THEN INITIAL_MIN_DISTANCE
                  ELSE MinEditDistance(uHistory)

\* getMinSimilarity was called on a history of exactly one segment
C14_Witness ==
    /\ uRet.op = "getMinSimilarity"
    /\ Len(uHistory) = 1

(***************************************************************************)
(* C15.  In every reachable state a registered session whose pendingAbort  *)
(* is true has an empty reasoningHistory: the flag is set and the history  *)
(* cleared in the step that declares the loop, and no delta processed      *)
(* while the calls are outstanding puts content into it.                   *)
(***************************************************************************)
C15_InFlightHasEmptyTrace ==
    \A sid \in Sessions : InFlight(sid) => State(sid).reasoningHistory = <<>>

\* A delta was processed and discarded while the injection had not returned
C15_Witness ==
    /\ log = "pending session abort"
    /\ \E i \in 1..Len(conts) :
          /\ conts[i].pc = "162"
          /\ Registered(conts[i].sid)
          /\ sessions[conts[i].sid] = conts[i].obj
          /\ heap[conts[i].obj].pendingAbort
          /\ heap[conts[i].obj].reasoningHistory = <<>>

\* The segments of h joined in order
RECURSIVE Concat(_)
Concat(h) == IF h = <<>> THEN <<>> ELSE Head(h) \o Concat(Tail(h))

\* updateDelta(delta) on the stand-alone SessionState drops a segment
\* (lines 40-42)
C16_Evicts(delta) ==
    /\ Len(uHistory) = MAX_REASONING_HISTORY_SEGMENTS
    /\ Len(uHistory[Len(uHistory)] \o Normalize(delta.val)) > MAX_REASONING_TRACE_LEN

(***************************************************************************)
(* C16, as claimed: a call of updateDelta that evicts nothing appends the  *)
(* normalized delta to the text held: the segments joined after the call   *)
(* are the segments joined before it followed by the normalized delta,     *)
(* also when the history is empty before the call.                         *)
(***************************************************************************)
C16_SplitLosesNoText ==
    [][\A delta \in UnitDeltas :
          (CallUpdateDelta(delta) /\ delta.defined /\ ~C16_Evicts(delta))
          => Concat(uHistory') = Concat(uHistory) \o Normalize(delta.val)]_vars

(***************************************************************************)
(* C17.  pendingAbort of a registry entry goes from true to false only in  *)
(* the echo step, a reasoning part update whose messageID equals the       *)
(* recorded abortMessageID; every other reasoning part update for an entry *)
(* in flight is discarded, and the end of the asynchronous tail, whether   *)
(* the injection or the abort failed or not, leaves pendingAbort true.     *)
(***************************************************************************)
C17_OnlyEchoClears ==
    [][\A sid \in Sessions :
          /\ (/\ InFlight(sid)
              /\ Registered(sid)'
              /\ ~State(sid)'.pendingAbort)
                => \E mid \in MsgIds, delta \in AllDeltas :
                      /\ mid = State(sid).abortMessageID
                      /\ handleMessagePartUpdate(sid, mid, "reasoning", delta)
          /\ \A mid \in MsgIds, delta \in AllDeltas :
                (/\ InFlight(sid)
                 /\ mid # State(sid).abortMessageID
                 /\ handleMessagePartUpdate(sid, mid, "reasoning", delta))
                => (Registered(sid)' /\ State(sid)' = State(sid))
          /\ \A i \in 1..Len(conts), abortRes \in AbortResults :
                (/\ AfterWarn(i, abortRes)
                 /\ Registered(sid)
                 /\ sessions[sid] = conts[i].obj)
                => (InFlight(sid) /\ InFlight(sid)')]_vars

\* The injection failed, the tail has ended without recording an id, and a
\* later delta for the entry was discarded
C17_Witness ==
    /\ log = "pending session abort"
    /\ \E sid \in Sessions :
          /\ InFlight(sid)
          /\ State(sid).abortMessageID = Undefined
          /\ \A i \in 1..Len(conts) : conts[i].obj # sessions[sid]

\* The injection of session sid's cycle has returned id M to the handler,
\* which has not yet reached line 170
InjectionReturned(sid, M) ==
    /\ InFlight(sid)
    /\ \E i \in 1..Len(conts) :
          /\ conts[i].obj = sessions[sid]
          /\ conts[i].pc \in {"163", "164"}
          /\ conts[i].promptRes = [error |-> FALSE, id |-> M]

\* A reasoning delta of session sid carrying messageID M is processed
DeliverReasoning(sid, M) ==
    \E delta \in AllDeltas : handleMessagePartUpdate(sid, M, "reasoning", delta)

(***************************************************************************)
(* C18, as claimed: once a loop was detected for a session and its         *)
(* injection has returned id M, a reasoning delta carrying M that is       *)
(* processed for the session ends the cycle, also when it is processed     *)
(* before the handler has completed.  Only a delta carrying the recorded   *)
(* id clears pendingAbort (C17), so a delta carrying M that leaves it set  *)
(* leaves it set until a further one arrives.                              *)
(***************************************************************************)
C18_EchoAfterInjectionClears ==
    [][\A sid \in Sessions, M \in PromptIds :
          (InjectionReturned(sid, M) /\ DeliverReasoning(sid, M))
          => ~InFlight(sid)']_vars

\* The session of the suspended handler i was deleted after the handler
\* started: the SessionState it holds is no longer the registry's
Orphaned(i) ==
    ~Registered(conts[i].sid) \/ sessions[conts[i].sid] # conts[i].obj

\* The suspended handler i resumes from one of its awaits
TailStep(i) ==
    \/ \E promptRes \in PromptResults : AwaitPrompt(i, promptRes)
    \/ AwaitAbort(i)
    \/ \E abortRes \in AbortResults : AfterWarn(i, abortRes)

(***************************************************************************)
(* C19.  When a session was deleted (and possibly re-created by            *)
(* session.created or by a reasoning delta) while its abort and prompt     *)
(* calls were outstanding, the return of those calls and the rest of the   *)
(* handler leave the registry as it is, and leave abortMessageID,          *)
(* pendingAbort and reasoningHistory of every entry, the re-created one    *)
(* included, unchanged.                                                    *)
(***************************************************************************)
C19_LateCompletionLeavesRecreated ==
    [][\A i \in 1..Len(conts) :
          (Orphaned(i) /\ TailStep(i))
          => /\ sessions' = sessions
             /\ \A sid \in DOMAIN sessions : State(sid)' = State(sid)]_vars

\* A handler has just finished with both calls successful (line 170 has
\* recorded the id), yet both sessions have entries with no id recorded:
\* the handler's session was deleted and re-created while it was suspended,
\* and the re-created entry has accumulated a segment of its own
C19_Witness ==
    /\ log = "successfully aborted session"
    /\ conts = <<>>
    /\ \A sid \in Sessions :
          /\ Registered(sid)
          /\ State(sid).abortMessageID = Undefined
          /\ ~State(sid).pendingAbort
          /\ State(sid).reasoningHistory # <<>>

\* Part types other than "reasoning"
OtherPartTypes == {"text", "tool"}

\* The step changes neither the registry nor any SessionState nor a suspended
\* handler, and issues no call
Ignored ==
    /\ sessions' = sessions
    /\ heap' = heap
    /\ conts' = conts
    /\ calls' = <<>>

(***************************************************************************)
(* C20.  A message.part.updated event whose part is not a reasoning part,  *)
(* and an event of any kind other than session.created, session.deleted    *)
(* and message.part.updated, leaves the registry and every session's       *)
(* state unchanged and issues no abort or prompt call: no entry is         *)
(* created for an unknown session, and pendingAbort stays set when the     *)
(* part's messageID is the recorded abortMessageID.                        *)
(***************************************************************************)
C20_IgnoredEventsChangeNothing ==
    [][/\ \A sid \in Sessions, mid \in MsgIds, ptype \in OtherPartTypes, delta \in AllDeltas :
             handleMessagePartUpdate(sid, mid, ptype, delta)
             => /\ Ignored
                /\ Registered(sid)' <=> Registered(sid)
                /\ (InFlight(sid) /\ mid = State(sid).abortMessageID) => InFlight(sid)'
       /\ handleOtherEvent => Ignored]_vars

\* An ignored event was the last one processed (no log line, no call), with
\* s1 in flight under a recorded id that the delivered messageIDs include
\* and s2 without an entry
C20_Witness ==
    /\ log = NoLog
    /\ calls = <<>>
    /\ conts = <<>>
    /\ InFlight("s1")
    /\ State("s1").abortMessageID \in MsgIds
    /\ ~Registered("s2")
====
